---- MODULE Spec2Model ----
(***************************************************************************)
(* State-machine model of the ESP32 eBike tuning chip firmware             *)
(* (firmware/src/main.cpp): the Arduino main thread (setup, then loop      *)
(* forever) and the four FreeRTOS tasks it creates, all sharing the global *)
(* currentState without synchronisation.  Every access to a shared         *)
(* variable is one step, so that the steps of the threads interleave as    *)
(* they do on the two cores.                                               *)
(***************************************************************************)
EXTENDS Naturals, FiniteSets, Sequences, TLC

VARIABLES
    currentState,       \* main.cpp:52   SystemState currentState
    mainPc,             \* position of the Arduino main thread (setup / loop)
    sw,                 \* value the loop's switch read in this cycle
    pending,            \* value the case body is about to assign to
                        \* currentState, "none" when no assignment is due
    recov,              \* canRecover() returned true in this cycle
    modulesOk,          \* whether initializeModules() ran to its end
    tuningEnabled,      \* configManager.isTuningEnabled()
    stealthEnabled,     \* configManager.isStealthModeEnabled()
    shutdownRequested,  \* an external shutdown request is pending
    safetyPc,           \* position of safetyTask
    status,             \* safetyTask's local SafetyStatus
    sensorPc,           \* position of sensorTask
    canPc,              \* position of canBusTask
    otaPc,              \* position of otaTask
    tuningActive,       \* SensorEmulator::tuningActive
    performanceMode,    \* SensorEmulator::performanceMode
    shutdownSent,       \* sendShutdownMessage() calls since boot
    critSeen,           \* history: how far the handling of a critical error
                        \* reported in TuningActive has got, until the loop
                        \* reads the state again
    quiet,              \* history: critical error handled, state not yet
                        \* TuningActive or StealthMode again
    heartbeatDue,       \* millis() - lastHeartbeat exceeds heartbeatInterval
    rxStale,            \* millis() - systemStatus.lastMessageTime exceeds
                        \* the heartbeat timeout
    isConnected,        \* CANBusHandler::systemStatus.isConnected
    framePending,       \* a received frame waits in messageQueue
    dueAtRead,          \* history: the heartbeat was due when the current
                        \* cycle of canBusTask started
    sustained           \* the readings of the safety monitor are good and
                        \* stay good: no critical error, recovery allowed

vars == <<currentState, mainPc, sw, pending, recov, modulesOk,
          tuningEnabled,
          stealthEnabled, shutdownRequested, safetyPc, status, sensorPc,
          canPc, otaPc, tuningActive, performanceMode, shutdownSent,
          critSeen, quiet, heartbeatDue, rxStale, isConnected,
          framePending, dueAtRead, sustained>>

(***************************************************************************)
(* The state of the CAN handler that time and the bus act on.              *)
(***************************************************************************)
busVars == <<heartbeatDue, rxStale, isConnected, framePending, dueAtRead>>

(***************************************************************************)
(* The SystemState enumeration.                                            *)
(***************************************************************************)
SYSTEM_INIT == "SYSTEM_INIT"
SYSTEM_NORMAL == "SYSTEM_NORMAL"
SYSTEM_TUNING_ACTIVE == "SYSTEM_TUNING_ACTIVE"
SYSTEM_STEALTH_MODE == "SYSTEM_STEALTH_MODE"
SYSTEM_ERROR == "SYSTEM_ERROR"
SYSTEM_SHUTDOWN == "SYSTEM_SHUTDOWN"

SystemState == {SYSTEM_INIT, SYSTEM_NORMAL, SYSTEM_TUNING_ACTIVE,
                SYSTEM_STEALTH_MODE, SYSTEM_ERROR, SYSTEM_SHUTDOWN}

(***************************************************************************)
(* The PerformanceMode enumeration.                                        *)
(***************************************************************************)
PERFORMANCE_NORMAL == "PERFORMANCE_NORMAL"
PERFORMANCE_REDUCED == "PERFORMANCE_REDUCED"
PERFORMANCE_MAXIMUM == "PERFORMANCE_MAXIMUM"

PerformanceMode == {PERFORMANCE_NORMAL, PERFORMANCE_REDUCED,
                    PERFORMANCE_MAXIMUM}

NoStatus == [criticalError |-> FALSE, temperatureWarning |-> FALSE]

(***************************************************************************)
(* What the safety monitor can answer: checkSystemHealth() reports a       *)
(* critical error or not, canRecover() allows the recovery or not; once    *)
(* the readings are good for good, no critical error is reported and the   *)
(* recovery is allowed.                                                    *)
(***************************************************************************)
criticalError == IF sustained THEN {FALSE} ELSE BOOLEAN

canRecover == IF sustained THEN {TRUE} ELSE BOOLEAN

(***************************************************************************)
(* The tasks exist once createTasks() has run.                             *)
(***************************************************************************)
TasksRunning == mainPc # "setup"

(***************************************************************************)
(* The positions of sensorTask at which a call into the emulator is about  *)
(* to be made.                                                             *)
(***************************************************************************)
SensorCall == {"call_speed", "call_stealth"}

(***************************************************************************)
(* History of the safety path, kept by every step: quiet holds from the    *)
(* moment safetyTask has finished handling a critical error until the      *)
(* state is TuningActive or StealthMode again.                             *)
(***************************************************************************)
Track(handledNow) ==
    quiet' = ((handledNow \/ quiet)
              /\ currentState' \notin {SYSTEM_TUNING_ACTIVE,
                                       SYSTEM_STEALTH_MODE})

(***************************************************************************)
(* State after static initialisation, before setup() runs.                 *)
(***************************************************************************)
Init ==
    /\ currentState = SYSTEM_INIT
    /\ mainPc = "setup"
    /\ sw = "none"
    /\ pending = "none"
    /\ recov = FALSE
    /\ modulesOk = FALSE
    /\ tuningEnabled \in BOOLEAN
    /\ stealthEnabled \in BOOLEAN
    /\ shutdownRequested = FALSE
    /\ safetyPc = "check"
    /\ status = NoStatus
    /\ sensorPc = "read"
    /\ canPc = "read"
    /\ otaPc = "poll"
    /\ tuningActive = FALSE
    /\ performanceMode = PERFORMANCE_NORMAL
    /\ shutdownSent = 0
    /\ critSeen = "none"
    /\ quiet = FALSE
    /\ heartbeatDue = FALSE
    /\ rxStale = FALSE
    /\ isConnected = FALSE
    /\ framePending = FALSE
    /\ dueAtRead = FALSE
    /\ sustained = FALSE

(***************************************************************************)
(* setup(): initializeModules() and createTasks().  initializeModules()    *)
(* returns early when a module fails to start; the tasks are created and   *)
(* the state is set all the same.  What SensorEmulator::begin leaves in    *)
(* tuningActive and performanceMode comes from the configuration.          *)
(***************************************************************************)
setupInitialize ==
    /\ mainPc = "setup"
    /\ \E ok \in BOOLEAN, t \in BOOLEAN,
          p \in {PERFORMANCE_NORMAL, PERFORMANCE_MAXIMUM} :
          /\ modulesOk' = ok
          /\ tuningActive' = t
          /\ performanceMode' = p
    /\ mainPc' = "set_normal"
    /\ UNCHANGED <<currentState, sw, pending, recov, tuningEnabled, stealthEnabled,
                   shutdownRequested, safetyPc, status, sensorPc, canPc,
                   otaPc, shutdownSent, critSeen>>
    /\ UNCHANGED <<busVars, sustained>>
    /\ Track(FALSE)

(***************************************************************************)
(* setup(): currentState = SYSTEM_NORMAL, after the tasks were created,    *)
(* whatever initializeModules() achieved.                                  *)
(***************************************************************************)
setupSetNormal ==
    /\ mainPc = "set_normal"
    /\ currentState' = SYSTEM_NORMAL
    /\ mainPc' = "loop_read"
    /\ UNCHANGED <<sw, pending, recov, modulesOk, tuningEnabled, stealthEnabled,
                   shutdownRequested, safetyPc, status, sensorPc, canPc,
                   otaPc, tuningActive, performanceMode, shutdownSent,
                   critSeen>>
    /\ UNCHANGED <<busVars, sustained>>
    /\ Track(FALSE)

(***************************************************************************)
(* loop(): the switch reads currentState once.                             *)
(***************************************************************************)
loopRead ==
    /\ mainPc = "loop_read"
    /\ sw' = currentState
    /\ recov' = FALSE
    /\ mainPc' = "loop_case"
    /\ critSeen' = IF critSeen \in {"written", "handled"}
                   THEN "none" ELSE critSeen
    /\ UNCHANGED <<currentState, pending, modulesOk, tuningEnabled, stealthEnabled,
                   shutdownRequested, safetyPc, status, sensorPc, canPc,
                   otaPc, tuningActive, performanceMode, shutdownSent>>
    /\ UNCHANGED <<busVars, sustained>>
    /\ Track(FALSE)

(***************************************************************************)
(* loopTransition with the two tests of the SYSTEM_TUNING_ACTIVE case in   *)
(* the other order.                                                        *)
(***************************************************************************)
loopTransitionTuningFirst(s, tuning, stealth, canRec) ==
    CASE s = SYSTEM_INIT -> SYSTEM_NORMAL
      [] s = SYSTEM_NORMAL ->
            IF tuning THEN SYSTEM_TUNING_ACTIVE ELSE "none"
      [] s = SYSTEM_TUNING_ACTIVE ->
            IF ~tuning THEN SYSTEM_NORMAL
            ELSE IF stealth THEN SYSTEM_STEALTH_MODE ELSE "none"
      [] s = SYSTEM_STEALTH_MODE ->
            IF ~stealth THEN SYSTEM_TUNING_ACTIVE ELSE "none"
      [] s = SYSTEM_ERROR ->
            IF canRec THEN SYSTEM_NORMAL ELSE "none"
      [] OTHER -> "none"

(***************************************************************************)
(* loopTransition when the break of the SYSTEM_NORMAL case is missing: the *)
(* cycle falls through into the SYSTEM_TUNING_ACTIVE case.                 *)
(***************************************************************************)
loopTransitionFallThrough(s, tuning, stealth, canRec) ==
    CASE s = SYSTEM_INIT -> SYSTEM_NORMAL
      [] s = SYSTEM_NORMAL ->
            IF stealth THEN SYSTEM_STEALTH_MODE
            ELSE IF tuning THEN SYSTEM_TUNING_ACTIVE ELSE SYSTEM_NORMAL
      [] s = SYSTEM_TUNING_ACTIVE ->
            IF stealth THEN SYSTEM_STEALTH_MODE
            ELSE IF ~tuning THEN SYSTEM_NORMAL ELSE "none"
      [] s = SYSTEM_STEALTH_MODE ->
            IF ~stealth THEN SYSTEM_TUNING_ACTIVE ELSE "none"
      [] s = SYSTEM_ERROR ->
            IF canRec THEN SYSTEM_NORMAL ELSE "none"
      [] OTHER -> "none"

(***************************************************************************)
(* loopTransition when the SYSTEM_STEALTH_MODE case consults the tuning    *)
(* flag the way the SYSTEM_TUNING_ACTIVE case does.                        *)
(***************************************************************************)
loopTransitionStealthChecksTuning(s, tuning, stealth, canRec) ==
    CASE s = SYSTEM_INIT -> SYSTEM_NORMAL
      [] s = SYSTEM_NORMAL ->
            IF tuning THEN SYSTEM_TUNING_ACTIVE ELSE "none"
      [] s = SYSTEM_TUNING_ACTIVE ->
            IF stealth THEN SYSTEM_STEALTH_MODE
            ELSE IF ~tuning THEN SYSTEM_NORMAL ELSE "none"
      [] s = SYSTEM_STEALTH_MODE ->
            IF ~stealth THEN SYSTEM_TUNING_ACTIVE
            ELSE IF ~tuning THEN SYSTEM_NORMAL ELSE "none"
      [] s = SYSTEM_ERROR ->
            IF canRec THEN SYSTEM_NORMAL ELSE "none"
      [] OTHER -> "none"

(***************************************************************************)
(* The value the case for state s assigns to currentState, "none" when it  *)
(* assigns nothing: tuning and stealth are the configuration flags, canRec *)
(* is what canRecover() returned.                                          *)
(***************************************************************************)
loopTransition(s, tuning, stealth, canRec) ==
    CASE s = SYSTEM_INIT -> SYSTEM_NORMAL
      [] s = SYSTEM_NORMAL ->
            IF tuning THEN SYSTEM_TUNING_ACTIVE ELSE "none"
      [] s = SYSTEM_TUNING_ACTIVE ->
            IF stealth THEN SYSTEM_STEALTH_MODE
            ELSE IF ~tuning THEN SYSTEM_NORMAL ELSE "none"
      [] s = SYSTEM_STEALTH_MODE ->
            IF ~stealth THEN SYSTEM_TUNING_ACTIVE ELSE "none"
      [] s = SYSTEM_ERROR ->
            IF canRec THEN SYSTEM_NORMAL ELSE "none"
      [] OTHER -> "none"

(***************************************************************************)
(* loopCase when the loop calls sensorEmulator.enableTuning() as it        *)
(* activates tuning.                                                       *)
(***************************************************************************)
loopCaseEnablesTuning ==
    /\ mainPc = "loop_case"
    /\ \E canRec \in (IF sw = SYSTEM_ERROR THEN canRecover ELSE {FALSE}) :
          LET t == loopTransition(sw, tuningEnabled, stealthEnabled, canRec)
          IN  /\ recov' = canRec
              /\ tuningActive' = IF sw = SYSTEM_SHUTDOWN THEN FALSE
                                 ELSE IF t = SYSTEM_TUNING_ACTIVE THEN TRUE
                                 ELSE tuningActive
              /\ IF sw = SYSTEM_SHUTDOWN
                 THEN /\ mainPc' = "sd_send"
                      /\ UNCHANGED <<currentState, pending>>
                 ELSE IF sw = SYSTEM_INIT
                 THEN /\ currentState' = t
                      /\ mainPc' = "loop_read"
                      /\ UNCHANGED pending
                 ELSE IF sw = SYSTEM_TUNING_ACTIVE /\ ~stealthEnabled
                 THEN /\ mainPc' = "loop_else"
                      /\ UNCHANGED <<currentState, pending>>
                 ELSE /\ mainPc' = IF t = "none" THEN "loop_read"
                                   ELSE "loop_store"
                      /\ pending' = t
                      /\ UNCHANGED currentState
    /\ UNCHANGED <<sw, modulesOk, tuningEnabled, stealthEnabled,
                   shutdownRequested, safetyPc, status, sensorPc, canPc,
                   otaPc, performanceMode, shutdownSent, critSeen>>
    /\ UNCHANGED <<busVars, sustained>>
    /\ Track(FALSE)

(***************************************************************************)
(* loop(): the first statement of the case the switch selected.  The       *)
(* SYSTEM_INIT case assigns at once.  The other cases start with a call:   *)
(* isTuningEnabled() in SYSTEM_NORMAL, isStealthModeEnabled() in           *)
(* SYSTEM_TUNING_ACTIVE and SYSTEM_STEALTH_MODE, canRecover() in           *)
(* SYSTEM_ERROR (what it returns is an input), disableTuning() in          *)
(* SYSTEM_SHUTDOWN.  What the call returned decides the assignment that    *)
(* follows, a step of its own; in SYSTEM_TUNING_ACTIVE a stealth flag that *)
(* is false leads to the test of the else branch.  Where nothing is to be  *)
(* assigned the cycle ends in delay(100).                                  *)
(***************************************************************************)
loopCase ==
    /\ mainPc = "loop_case"
    /\ \E canRec \in (IF sw = SYSTEM_ERROR THEN canRecover ELSE {FALSE}) :
          LET t == loopTransition(sw, tuningEnabled, stealthEnabled, canRec)
          IN  /\ recov' = canRec
              /\ IF sw = SYSTEM_SHUTDOWN
                 THEN /\ mainPc' = "sd_send"
                      /\ UNCHANGED <<currentState, pending>>
                 ELSE IF sw = SYSTEM_INIT
                 THEN /\ currentState' = t
                      /\ mainPc' = "loop_read"
                      /\ UNCHANGED pending
                 ELSE IF sw = SYSTEM_TUNING_ACTIVE /\ ~stealthEnabled
                 THEN /\ mainPc' = "loop_else"
                      /\ UNCHANGED <<currentState, pending>>
                 ELSE /\ mainPc' = IF t = "none" THEN "loop_read"
                                   ELSE "loop_store"
                      /\ pending' = t
                      /\ UNCHANGED currentState
    /\ tuningActive' = IF sw = SYSTEM_SHUTDOWN THEN FALSE ELSE tuningActive
    /\ UNCHANGED <<sw, modulesOk, tuningEnabled, stealthEnabled,
                   shutdownRequested, safetyPc, status, sensorPc, canPc,
                   otaPc, performanceMode, shutdownSent, critSeen>>
    /\ UNCHANGED <<busVars, sustained>>
    /\ Track(FALSE)

(***************************************************************************)
(* loop(), SYSTEM_TUNING_ACTIVE case: the test !isTuningEnabled() of the   *)
(* else branch, reached when isStealthModeEnabled() returned false.        *)
(***************************************************************************)
loopElse ==
    /\ mainPc = "loop_else"
    /\ LET t == loopTransition(sw, tuningEnabled, FALSE, FALSE)
       IN  /\ mainPc' = IF t = "none" THEN "loop_read" ELSE "loop_store"
           /\ pending' = t
    /\ UNCHANGED <<currentState, sw, recov, modulesOk, tuningEnabled,
                   stealthEnabled, shutdownRequested, safetyPc, status,
                   sensorPc, canPc, otaPc, tuningActive, performanceMode,
                   shutdownSent, critSeen>>
    /\ UNCHANGED <<busVars, sustained>>
    /\ Track(FALSE)

(***************************************************************************)
(* loop(): the assignment to currentState the case body decided on, then   *)
(* delay(100).                                                             *)
(***************************************************************************)
loopStore ==
    /\ mainPc = "loop_store"
    /\ currentState' = pending
    /\ pending' = "none"
    /\ mainPc' = "loop_read"
    /\ UNCHANGED <<sw, recov, modulesOk, tuningEnabled, stealthEnabled,
                   shutdownRequested, safetyPc, status, sensorPc, canPc,
                   otaPc, tuningActive, performanceMode, shutdownSent,
                   critSeen>>
    /\ UNCHANGED <<busVars, sustained>>
    /\ Track(FALSE)

(***************************************************************************)
(* loop(), SYSTEM_SHUTDOWN case: canBusHandler.sendShutdownMessage().      *)
(***************************************************************************)
loopSendShutdown ==
    /\ mainPc = "sd_send"
    /\ shutdownSent' = shutdownSent + 1
    /\ mainPc' = "sd_restart"
    /\ UNCHANGED <<currentState, sw, pending, recov, modulesOk, tuningEnabled,
                   stealthEnabled, shutdownRequested, safetyPc, status,
                   sensorPc, canPc, otaPc, tuningActive, performanceMode,
                   critSeen>>
    /\ UNCHANGED <<busVars, sustained>>
    /\ Track(FALSE)

(***************************************************************************)
(* loop(), SYSTEM_SHUTDOWN case: ESP.restart().  The device boots again:   *)
(* the tasks are gone and every variable has its initial value; the        *)
(* configuration is kept.                                                  *)
(***************************************************************************)
loopRestart ==
    /\ mainPc = "sd_restart"
    /\ currentState' = SYSTEM_INIT
    /\ mainPc' = "setup"
    /\ sw' = "none"
    /\ pending' = "none"
    /\ recov' = FALSE
    /\ modulesOk' = FALSE
    /\ shutdownRequested' = FALSE
    /\ safetyPc' = "check"
    /\ status' = NoStatus
    /\ sensorPc' = "read"
    /\ canPc' = "read"
    /\ otaPc' = "poll"
    /\ tuningActive' = FALSE
    /\ performanceMode' = PERFORMANCE_NORMAL
    /\ shutdownSent' = 0
    /\ critSeen' = "none"
    /\ quiet' = FALSE
    /\ heartbeatDue' = FALSE
    /\ rxStale' = FALSE
    /\ isConnected' = FALSE
    /\ framePending' = FALSE
    /\ dueAtRead' = FALSE
    /\ sustained' = FALSE
    /\ UNCHANGED <<tuningEnabled, stealthEnabled>>

(***************************************************************************)
(* safetyCheck when a health check without warning puts the performance    *)
(* mode back to Normal.                                                    *)
(***************************************************************************)
safetyCheckRestoresPerformance ==
    /\ TasksRunning
    /\ safetyPc = "check"
    /\ \E crit \in criticalError, warn \in BOOLEAN :
          /\ status' = IF crit \/ warn
                       THEN [criticalError |-> crit,
                             temperatureWarning |-> warn]
                       ELSE NoStatus
          /\ safetyPc' = IF crit THEN "set_error"
                         ELSE IF warn THEN "set_performance" ELSE "check"
          /\ critSeen' = IF crit /\ currentState = SYSTEM_TUNING_ACTIVE
                         THEN "reported" ELSE critSeen
          /\ performanceMode' = IF warn THEN performanceMode
                                ELSE PERFORMANCE_NORMAL
    /\ UNCHANGED <<currentState, mainPc, sw, pending, recov, modulesOk,
                   tuningEnabled, stealthEnabled, shutdownRequested, sensorPc, canPc, otaPc,
                   tuningActive, shutdownSent>>
    /\ UNCHANGED <<busVars, sustained>>
    /\ Track(FALSE)

(***************************************************************************)
(* safetyTask: status = safetyMonitor.checkSystemHealth().  The health     *)
(* reading is an input; the two tests on it are local.  With neither flag  *)
(* set the cycle ends in vTaskDelay.                                       *)
(***************************************************************************)
safetyCheck ==
    /\ TasksRunning
    /\ safetyPc = "check"
    /\ \E crit \in criticalError, warn \in BOOLEAN :
          /\ status' = IF crit \/ warn
                       THEN [criticalError |-> crit,
                             temperatureWarning |-> warn]
                       ELSE NoStatus
          /\ safetyPc' = IF crit THEN "set_error"
                         ELSE IF warn THEN "set_performance" ELSE "check"
          /\ critSeen' = IF crit /\ currentState = SYSTEM_TUNING_ACTIVE
                         THEN "reported" ELSE critSeen
    /\ UNCHANGED <<currentState, mainPc, sw, pending, recov, modulesOk,
                   tuningEnabled, stealthEnabled, shutdownRequested, sensorPc, canPc, otaPc,
                   tuningActive, performanceMode, shutdownSent>>
    /\ UNCHANGED <<busVars, sustained>>
    /\ Track(FALSE)

(***************************************************************************)
(* safetyTask, criticalError: currentState = SYSTEM_ERROR.                 *)
(***************************************************************************)
safetySetError ==
    /\ TasksRunning
    /\ safetyPc = "set_error"
    /\ currentState' = SYSTEM_ERROR
    /\ safetyPc' = "disable_tuning"
    /\ critSeen' = IF critSeen = "reported" THEN "written" ELSE critSeen
    /\ UNCHANGED <<mainPc, sw, pending, recov, modulesOk, tuningEnabled,
                   stealthEnabled, shutdownRequested, status, sensorPc,
                   canPc, otaPc, tuningActive, performanceMode,
                   shutdownSent>>
    /\ UNCHANGED <<busVars, sustained>>
    /\ Track(FALSE)

(***************************************************************************)
(* safetyTask, criticalError: sensorEmulator.disableTuning(); without a    *)
(* temperature warning the cycle ends in vTaskDelay and status goes out of *)
(* scope.                                                                  *)
(***************************************************************************)
safetyDisableTuning ==
    /\ TasksRunning
    /\ safetyPc = "disable_tuning"
    /\ tuningActive' = FALSE
    /\ safetyPc' = IF status.temperatureWarning
                   THEN "set_performance" ELSE "check"
    /\ status' = IF status.temperatureWarning THEN status ELSE NoStatus
    /\ critSeen' = IF critSeen = "written" THEN "handled" ELSE critSeen
    /\ UNCHANGED <<currentState, mainPc, sw, pending, recov, modulesOk,
                   tuningEnabled, stealthEnabled, shutdownRequested, sensorPc, canPc, otaPc,
                   performanceMode, shutdownSent>>
    /\ UNCHANGED <<busVars, sustained>>
    /\ Track(TRUE)

(***************************************************************************)
(* safetySetPerformance when a temperature warning is handled the way a    *)
(* critical error is: the state is set to SYSTEM_ERROR as well.            *)
(***************************************************************************)
safetySetPerformanceAndError ==
    /\ TasksRunning
    /\ safetyPc = "set_performance"
    /\ performanceMode' = PERFORMANCE_REDUCED
    /\ currentState' = SYSTEM_ERROR
    /\ status' = NoStatus
    /\ safetyPc' = "check"
    /\ UNCHANGED <<mainPc, sw, pending, recov, modulesOk, tuningEnabled,
                   stealthEnabled, shutdownRequested, sensorPc, canPc, otaPc,
                   tuningActive, shutdownSent, critSeen>>
    /\ UNCHANGED <<busVars, sustained>>
    /\ Track(FALSE)

(***************************************************************************)
(* safetyTask, temperatureWarning:                                         *)
(* sensorEmulator.setPerformanceMode(PERFORMANCE_REDUCED), then            *)
(* vTaskDelay; status goes out of scope.                                   *)
(***************************************************************************)
safetySetPerformance ==
    /\ TasksRunning
    /\ safetyPc = "set_performance"
    /\ performanceMode' = PERFORMANCE_REDUCED
    /\ status' = NoStatus
    /\ safetyPc' = "check"
    /\ UNCHANGED <<currentState, mainPc, sw, pending, recov, modulesOk,
                   tuningEnabled, stealthEnabled, shutdownRequested, sensorPc, canPc, otaPc,
                   tuningActive, shutdownSent, critSeen>>
    /\ UNCHANGED <<busVars, sustained>>
    /\ Track(FALSE)

(***************************************************************************)
(* sensorTask: where the cycle goes after the first test, which read the   *)
(* state s.                                                                *)
(***************************************************************************)
sensorAfterRead(s) ==
    IF s = SYSTEM_TUNING_ACTIVE THEN "call_speed" ELSE "read_else"

(***************************************************************************)
(* sensorAfterReadElse with a plain else in place of the else-if.          *)
(***************************************************************************)
sensorAfterReadElseUntested(s) == "call_stealth"

(***************************************************************************)
(* sensorTask: where the cycle goes after the test of the else branch,     *)
(* which read the state s again.                                           *)
(***************************************************************************)
sensorAfterReadElse(s) ==
    IF s = SYSTEM_STEALTH_MODE THEN "call_stealth" ELSE "read"

(***************************************************************************)
(* sensorTask: the test currentState == SYSTEM_TUNING_ACTIVE, the first    *)
(* read of the cycle.                                                      *)
(***************************************************************************)
sensorRead ==
    /\ TasksRunning
    /\ sensorPc = "read"
    /\ sensorPc' = sensorAfterRead(currentState)
    /\ UNCHANGED <<currentState, mainPc, sw, pending, recov, modulesOk,
                   tuningEnabled, stealthEnabled, shutdownRequested, safetyPc, status,
                   canPc, otaPc, tuningActive, performanceMode, shutdownSent,
                   critSeen>>
    /\ UNCHANGED <<busVars, sustained>>
    /\ Track(FALSE)

(***************************************************************************)
(* sensorTask: the test currentState == SYSTEM_STEALTH_MODE of the else    *)
(* branch, a second read; when it fails the cycle ends in vTaskDelay.      *)
(***************************************************************************)
sensorReadElse ==
    /\ TasksRunning
    /\ sensorPc = "read_else"
    /\ sensorPc' = sensorAfterReadElse(currentState)
    /\ UNCHANGED <<currentState, mainPc, sw, pending, recov, modulesOk,
                   tuningEnabled, stealthEnabled, shutdownRequested, safetyPc, status,
                   canPc, otaPc, tuningActive, performanceMode, shutdownSent,
                   critSeen>>
    /\ UNCHANGED <<busVars, sustained>>
    /\ Track(FALSE)

(***************************************************************************)
(* sensorProcessSpeedSignal when the sensor task reports a failed signal   *)
(* by setting the system state itself.                                     *)
(***************************************************************************)
sensorProcessSpeedSignalSetsError ==
    /\ TasksRunning
    /\ sensorPc = "call_speed"
    /\ sensorPc' = "read"
    /\ currentState' = SYSTEM_ERROR
    /\ UNCHANGED <<mainPc, sw, pending, recov, modulesOk, tuningEnabled,
                   stealthEnabled, shutdownRequested, safetyPc, status,
                   canPc, otaPc, tuningActive, performanceMode, shutdownSent,
                   critSeen>>
    /\ UNCHANGED <<busVars, sustained>>
    /\ Track(FALSE)

(***************************************************************************)
(* sensorTask: sensorEmulator.processSpeedSignal(), then vTaskDelay.       *)
(***************************************************************************)
sensorProcessSpeedSignal ==
    /\ TasksRunning
    /\ sensorPc = "call_speed"
    /\ sensorPc' = "read"
    /\ UNCHANGED <<currentState, mainPc, sw, pending, recov, modulesOk,
                   tuningEnabled, stealthEnabled, shutdownRequested, safetyPc, status,
                   canPc, otaPc, tuningActive, performanceMode, shutdownSent,
                   critSeen>>
    /\ UNCHANGED <<busVars, sustained>>
    /\ Track(FALSE)

(***************************************************************************)
(* sensorTask: sensorEmulator.stealthMode(), then vTaskDelay.              *)
(***************************************************************************)
sensorStealthMode ==
    /\ TasksRunning
    /\ sensorPc = "call_stealth"
    /\ sensorPc' = "read"
    /\ UNCHANGED <<currentState, mainPc, sw, pending, recov, modulesOk,
                   tuningEnabled, stealthEnabled, shutdownRequested, safetyPc, status,
                   canPc, otaPc, tuningActive, performanceMode, shutdownSent,
                   critSeen>>
    /\ UNCHANGED <<busVars, sustained>>
    /\ Track(FALSE)

(***************************************************************************)
(* canBusTask: the test currentState == SYSTEM_NORMAL, the first read of   *)
(* the cycle.                                                              *)
(***************************************************************************)
canBusRead ==
    /\ TasksRunning
    /\ canPc = "read"
    /\ canPc' = IF currentState = SYSTEM_NORMAL THEN "process" ELSE "read_or"
    /\ UNCHANGED <<currentState, mainPc, sw, pending, recov, modulesOk,
                   tuningEnabled, stealthEnabled, shutdownRequested, safetyPc, status,
                   sensorPc, otaPc, tuningActive, performanceMode,
                   shutdownSent, critSeen>>
    /\ dueAtRead' = heartbeatDue
    /\ UNCHANGED <<heartbeatDue, rxStale, isConnected, framePending,
                   sustained>>
    /\ Track(FALSE)

(***************************************************************************)
(* canBusTask: the test currentState == SYSTEM_TUNING_ACTIVE on the right  *)
(* of ||, a second read; when it fails too the cycle ends in vTaskDelay.   *)
(***************************************************************************)
canBusReadOr ==
    /\ TasksRunning
    /\ canPc = "read_or"
    /\ canPc' = IF currentState = SYSTEM_TUNING_ACTIVE
                THEN "process" ELSE "read"
    /\ UNCHANGED <<currentState, mainPc, sw, pending, recov, modulesOk,
                   tuningEnabled, stealthEnabled, shutdownRequested, safetyPc, status,
                   sensorPc, otaPc, tuningActive, performanceMode,
                   shutdownSent, critSeen>>
    /\ UNCHANGED <<busVars, sustained>>
    /\ Track(FALSE)

(***************************************************************************)
(* CANBusHandler: the connected flag after the decode of the frames that   *)
(* wait in the queue; a successful decode sets it.                         *)
(***************************************************************************)
decodeConnected(connected, queued) == connected \/ queued

(***************************************************************************)
(* CANBusHandler: the staleness check of the periodic bookkeeping; the     *)
(* connected flag is recomputed from the time since the last received      *)
(* frame.                                                                  *)
(***************************************************************************)
tickConnected(connected, stale) == connected /\ ~stale

(***************************************************************************)
(* canBusTask: canBusHandler.processMessages().  A frame that waits is     *)
(* decoded: the status is connected and lastMessageTime is now.            *)
(***************************************************************************)
canBusProcessMessages ==
    /\ TasksRunning
    /\ canPc = "process"
    /\ canPc' = "heartbeat"
    /\ isConnected' = decodeConnected(isConnected, framePending)
    /\ rxStale' = (rxStale /\ ~framePending)
    /\ framePending' = FALSE
    /\ UNCHANGED <<heartbeatDue, dueAtRead, sustained>>
    /\ UNCHANGED <<currentState, mainPc, sw, pending, recov, modulesOk,
                   tuningEnabled, stealthEnabled, shutdownRequested, safetyPc, status,
                   sensorPc, otaPc, tuningActive, performanceMode,
                   shutdownSent, critSeen>>
    /\ Track(FALSE)

(***************************************************************************)
(* canBusTask: canBusHandler.sendHeartbeat(), then vTaskDelay.  The        *)
(* handler's periodic bookkeeping: a heartbeat frame is transmitted when   *)
(* the interval has elapsed, lastHeartbeat is now, and the connected flag  *)
(* is recomputed.                                                          *)
(***************************************************************************)
canBusSendHeartbeat ==
    /\ TasksRunning
    /\ canPc = "heartbeat"
    /\ canPc' = "read"
    /\ heartbeatDue' = FALSE
    /\ isConnected' = tickConnected(isConnected, rxStale)
    /\ UNCHANGED <<rxStale, framePending, dueAtRead, sustained>>
    /\ UNCHANGED <<currentState, mainPc, sw, pending, recov, modulesOk,
                   tuningEnabled, stealthEnabled, shutdownRequested, safetyPc, status,
                   sensorPc, otaPc, tuningActive, performanceMode,
                   shutdownSent, critSeen>>
    /\ Track(FALSE)

(***************************************************************************)
(* otaTask: the test WiFi.status() == WL_CONNECTED; the link state is an   *)
(* input.  Without a link the cycle ends in vTaskDelay.                    *)
(***************************************************************************)
otaPoll ==
    /\ TasksRunning
    /\ otaPc = "poll"
    /\ \E connected \in BOOLEAN :
          otaPc' = IF connected THEN "update" ELSE "poll"
    /\ UNCHANGED <<currentState, mainPc, sw, pending, recov, modulesOk,
                   tuningEnabled, stealthEnabled, shutdownRequested, safetyPc, status,
                   sensorPc, canPc, tuningActive, performanceMode,
                   shutdownSent, critSeen>>
    /\ UNCHANGED <<busVars, sustained>>
    /\ Track(FALSE)

(***************************************************************************)
(* otaTask: otaUpdater.checkForUpdates(), then vTaskDelay.                 *)
(***************************************************************************)
otaCheckForUpdates ==
    /\ TasksRunning
    /\ otaPc = "update"
    /\ otaPc' = "poll"
    /\ UNCHANGED <<currentState, mainPc, sw, pending, recov, modulesOk,
                   tuningEnabled, stealthEnabled, shutdownRequested, safetyPc, status,
                   sensorPc, canPc, tuningActive, performanceMode,
                   shutdownSent, critSeen>>
    /\ UNCHANGED <<busVars, sustained>>
    /\ Track(FALSE)

(***************************************************************************)
(* The configuration flags the loop asks configManager for change outside  *)
(* the firmware's control.                                                 *)
(***************************************************************************)
configChange ==
    /\ \E t \in BOOLEAN, s \in BOOLEAN :
          /\ <<t, s>> # <<tuningEnabled, stealthEnabled>>
          /\ tuningEnabled' = t
          /\ stealthEnabled' = s
    /\ UNCHANGED <<currentState, mainPc, sw, pending, recov, modulesOk,
                   shutdownRequested, safetyPc, status, sensorPc, canPc,
                   otaPc, tuningActive, performanceMode, shutdownSent,
                   critSeen>>
    /\ UNCHANGED <<busVars, sustained>>
    /\ Track(FALSE)

(***************************************************************************)
(* An external shutdown request arrives while the firmware runs.  Nothing  *)
(* in main.cpp receives it: no statement assigns SYSTEM_SHUTDOWN.          *)
(***************************************************************************)
shutdownRequest ==
    /\ mainPc \in {"loop_read", "loop_case", "loop_else", "loop_store"}
    /\ ~shutdownRequested
    /\ shutdownRequested' = TRUE
    /\ UNCHANGED <<currentState, mainPc, sw, pending, recov, modulesOk,
                   tuningEnabled, stealthEnabled, safetyPc, status, sensorPc, canPc, otaPc,
                   tuningActive, performanceMode, shutdownSent, critSeen>>
    /\ UNCHANGED <<busVars, sustained>>
    /\ Track(FALSE)

(***************************************************************************)
(* The transition into Shutdown of the design's state machine: the         *)
(* supervisory loop, between two cycles, takes a pending request.          *)
(***************************************************************************)
enterShutdown ==
    /\ mainPc = "loop_read"
    /\ shutdownRequested
    /\ currentState' = SYSTEM_SHUTDOWN
    /\ shutdownRequested' = FALSE
    /\ UNCHANGED <<mainPc, sw, pending, recov, modulesOk, tuningEnabled,
                   stealthEnabled, safetyPc, status, sensorPc, canPc, otaPc,
                   tuningActive, performanceMode, shutdownSent, critSeen>>
    /\ UNCHANGED <<busVars, sustained>>
    /\ Track(FALSE)

(***************************************************************************)
(* loop(): the statement that follows in a case body and ends it: the      *)
(* assignment to currentState, or, in the SYSTEM_SHUTDOWN case,            *)
(* sendShutdownMessage() and then ESP.restart().  No statement of main.cpp *)
(* assigns SYSTEM_SHUTDOWN, so the last two run only where the state is    *)
(* set to Shutdown from outside (enterShutdown).                           *)
(***************************************************************************)
loopCaseEnd ==
    /\ mainPc \in {"loop_store", "sd_send", "sd_restart"}
    /\ (loopStore \/ loopSendShutdown \/ loopRestart)

(***************************************************************************)
(* The firmware as written: the main thread, the four tasks and their      *)
(* inputs.                                                                 *)
(***************************************************************************)
mainThread ==
    \/ setupInitialize
    \/ setupSetNormal
    \/ loopRead
    \/ loopCase
    \/ loopElse
    \/ loopCaseEnd

safetyTask ==
    \/ safetyCheck
    \/ safetySetError
    \/ safetyDisableTuning
    \/ safetySetPerformance

sensorTask ==
    \/ sensorRead
    \/ sensorReadElse
    \/ sensorProcessSpeedSignal
    \/ sensorStealthMode

canBusTask ==
    \/ canBusRead
    \/ canBusReadOr
    \/ canBusProcessMessages
    \/ canBusSendHeartbeat

otaTask == otaPoll \/ otaCheckForUpdates

Next ==
    \/ mainThread
    \/ safetyTask
    \/ sensorTask
    \/ canBusTask
    \/ otaTask
    \/ configChange

Spec == Init /\ [][Next]_vars

(***************************************************************************)
(* The firmware with shutdown requests arriving from outside.              *)
(***************************************************************************)
NextRequest == Next \/ shutdownRequest

(***************************************************************************)
(* The firmware with the design's transition into Shutdown added, which    *)
(* the loop's SYSTEM_SHUTDOWN case follows.                                *)
(***************************************************************************)
NextShutdown == NextRequest \/ enterShutdown

SpecShutdown == Init /\ [][NextShutdown]_vars

(***************************************************************************)
(* Time passes: the heartbeat interval has elapsed since lastHeartbeat.    *)
(***************************************************************************)
heartbeatIntervalElapses ==
    /\ TasksRunning
    /\ ~heartbeatDue
    /\ heartbeatDue' = TRUE
    /\ UNCHANGED <<currentState, mainPc, sw, pending, recov, modulesOk,
                   tuningEnabled, stealthEnabled, shutdownRequested, safetyPc, status,
                   sensorPc, canPc, otaPc, tuningActive, performanceMode,
                   shutdownSent, critSeen, rxStale, isConnected,
                   framePending, dueAtRead, sustained>>
    /\ Track(FALSE)

(***************************************************************************)
(* Time passes: the heartbeat timeout has elapsed since the last received  *)
(* frame.                                                                  *)
(***************************************************************************)
frameTimeoutElapses ==
    /\ TasksRunning
    /\ ~rxStale
    /\ rxStale' = TRUE
    /\ UNCHANGED <<currentState, mainPc, sw, pending, recov, modulesOk,
                   tuningEnabled, stealthEnabled, shutdownRequested, safetyPc, status,
                   sensorPc, canPc, otaPc, tuningActive, performanceMode,
                   shutdownSent, critSeen, heartbeatDue, isConnected,
                   framePending, dueAtRead, sustained>>
    /\ Track(FALSE)

(***************************************************************************)
(* The bus delivers a frame of the Bosch system into the message queue.    *)
(***************************************************************************)
frameArrives ==
    /\ TasksRunning
    /\ ~framePending
    /\ framePending' = TRUE
    /\ UNCHANGED <<currentState, mainPc, sw, pending, recov, modulesOk,
                   tuningEnabled, stealthEnabled, shutdownRequested, safetyPc, status,
                   sensorPc, canPc, otaPc, tuningActive, performanceMode,
                   shutdownSent, critSeen, heartbeatDue, rxStale,
                   isConnected, dueAtRead, sustained>>
    /\ Track(FALSE)

(***************************************************************************)
(* From now on the readings of the safety monitor are good.                *)
(***************************************************************************)
goodReadingsSustain ==
    /\ TasksRunning
    /\ ~sustained
    /\ sustained' = TRUE
    /\ UNCHANGED <<currentState, mainPc, sw, pending, recov, modulesOk,
                   tuningEnabled, stealthEnabled, shutdownRequested, safetyPc, status,
                   sensorPc, canPc, otaPc, tuningActive, performanceMode,
                   shutdownSent, critSeen, busVars>>
    /\ Track(FALSE)

(***************************************************************************)
(* The firmware with the heartbeat clock running.                          *)
(***************************************************************************)
NextHeartbeat == Next \/ heartbeatIntervalElapses

SpecHeartbeat == Init /\ [][NextHeartbeat]_vars

(***************************************************************************)
(* The firmware on a bus: frames arrive, and stop arriving.                *)
(***************************************************************************)
NextConnection == Next \/ frameArrives \/ frameTimeoutElapses

SpecConnection == Init /\ [][NextConnection]_vars

(***************************************************************************)
(* The Arduino core calls loop() forever, and FreeRTOS runs each task when *)
(* its delay expires: no thread is starved.  What checkSystemHealth() and  *)
(* WiFi.status() return is an input that scheduling does not decide: a     *)
(* safetyTask that reads good health and an otaTask that finds no link run *)
(* their cycle for ever without a change of state.  So of these two tasks  *)
(* the steps that follow the reading are fair, and the reading is not.     *)
(***************************************************************************)
Fairness ==
    /\ WF_vars(mainThread)
    /\ WF_vars(safetySetError \/ safetyDisableTuning \/ safetySetPerformance)
    /\ WF_vars(sensorTask)
    /\ WF_vars(canBusTask)
    /\ WF_vars(otaCheckForUpdates)

FairSpec == Init /\ [][NextRequest]_vars /\ Fairness

(***************************************************************************)
(* The firmware, no thread starved, with a safety monitor whose readings   *)
(* become good for good at some moment.                                    *)
(***************************************************************************)
NextRecovery == Next \/ goodReadingsSustain

FairSpecRecovery == Init /\ [][NextRecovery]_vars /\ Fairness

(***************************************************************************)
(* The firmware in steady conditions: tuning and stealth mode are both     *)
(* enabled and stay so, the readings of the safety monitor are good from   *)
(* the boot on, and no thread is starved.  The steps that handle a         *)
(* critical error and the test of the else branch of the                   *)
(* SYSTEM_TUNING_ACTIVE case never become enabled.                         *)
(***************************************************************************)
InitSteady ==
    /\ currentState = SYSTEM_INIT
    /\ mainPc = "setup"
    /\ sw = "none"
    /\ pending = "none"
    /\ recov = FALSE
    /\ modulesOk = FALSE
    /\ tuningEnabled = TRUE
    /\ stealthEnabled = TRUE
    /\ shutdownRequested = FALSE
    /\ safetyPc = "check"
    /\ status = NoStatus
    /\ sensorPc = "read"
    /\ canPc = "read"
    /\ otaPc = "poll"
    /\ tuningActive = FALSE
    /\ performanceMode = PERFORMANCE_NORMAL
    /\ shutdownSent = 0
    /\ critSeen = "none"
    /\ quiet = FALSE
    /\ heartbeatDue = FALSE
    /\ rxStale = FALSE
    /\ isConnected = FALSE
    /\ framePending = FALSE
    /\ dueAtRead = FALSE
    /\ sustained = TRUE

NextSteady ==
    \/ setupInitialize
    \/ setupSetNormal
    \/ loopRead
    \/ loopCase
    \/ loopCaseEnd
    \/ safetyCheck
    \/ safetySetPerformance
    \/ sensorTask
    \/ canBusTask
    \/ otaTask

FairSpecSteady == InitSteady /\ [][NextSteady]_vars /\ Fairness

(***************************************************************************)
(* Well-formedness of the state.                                           *)
(***************************************************************************)
TypeOK ==
    /\ currentState \in SystemState
    /\ mainPc \in {"setup", "set_normal", "loop_read", "loop_case",
                   "loop_else", "loop_store", "sd_send", "sd_restart"}
    /\ sw \in SystemState \cup {"none"}
    /\ pending \in SystemState \cup {"none"}
    /\ recov \in BOOLEAN
    /\ modulesOk \in BOOLEAN
    /\ tuningEnabled \in BOOLEAN
    /\ stealthEnabled \in BOOLEAN
    /\ shutdownRequested \in BOOLEAN
    /\ safetyPc \in {"check", "set_error", "disable_tuning",
                     "set_performance"}
    /\ status \in [criticalError : BOOLEAN, temperatureWarning : BOOLEAN]
    /\ sensorPc \in {"read", "read_else"} \cup SensorCall
    /\ canPc \in {"read", "read_or", "process", "heartbeat"}
    /\ otaPc \in {"poll", "update"}
    /\ tuningActive \in BOOLEAN
    /\ performanceMode \in PerformanceMode
    /\ shutdownSent \in {0, 1}
    /\ critSeen \in {"none", "reported", "written", "handled"}
    /\ quiet \in BOOLEAN
    /\ heartbeatDue \in BOOLEAN
    /\ rxStale \in BOOLEAN
    /\ isConnected \in BOOLEAN
    /\ framePending \in BOOLEAN
    /\ dueAtRead \in BOOLEAN
    /\ sustained \in BOOLEAN

(***************************************************************************)
(* The steps of the main thread that the properties below speak of.        *)
(***************************************************************************)
SetupWrites == mainPc = "set_normal" /\ mainPc' = "loop_read"

LoopReads == mainPc = "loop_read" /\ mainPc' = "loop_case"

LoopCycleEnds ==
    /\ mainPc \in {"loop_case", "loop_else", "loop_store"}
    /\ mainPc' = "loop_read"

LoopStores == mainPc = "loop_store" /\ mainPc' = "loop_read"

Restarts == mainPc = "sd_restart" /\ mainPc' = "setup"

SensorCallRuns ==
    /\ sensorPc \in SensorCall
    /\ sensorPc' = "read"
    /\ ~Restarts

CanCycleEnds == canPc # "read" /\ canPc' = "read" /\ ~Restarts

(***************************************************************************)
(* C1.  A critical error reported while the state is TuningActive: the     *)
(* first cycle of the loop that starts after safetyTask has assigned       *)
(* SYSTEM_ERROR reads SYSTEM_ERROR, and when safetyTask has finished with  *)
(* the error, the emulator's tuning is disabled.                           *)
(***************************************************************************)
C1_CriticalErrorSeenByLoop ==
    [][(critSeen \in {"written", "handled"} /\ LoopReads)
          => /\ sw' = SYSTEM_ERROR
             /\ critSeen = "handled" => ~tuningActive']_vars

(***************************************************************************)
(* C2.  Every change of currentState is a transition of the table of the   *)
(* supervisory state machine.                                              *)
(***************************************************************************)
TransitionTable ==
    {<<SYSTEM_INIT, SYSTEM_NORMAL>>,
     <<SYSTEM_NORMAL, SYSTEM_TUNING_ACTIVE>>,
     <<SYSTEM_TUNING_ACTIVE, SYSTEM_STEALTH_MODE>>,
     <<SYSTEM_TUNING_ACTIVE, SYSTEM_NORMAL>>,
     <<SYSTEM_STEALTH_MODE, SYSTEM_TUNING_ACTIVE>>,
     <<SYSTEM_ERROR, SYSTEM_NORMAL>>}
    \cup {<<s, SYSTEM_ERROR>> : s \in SystemState}
    \cup {<<s, SYSTEM_SHUTDOWN>> : s \in SystemState}

C2_OnlyTableTransitions ==
    [][currentState' # currentState
          => <<currentState, currentState'>> \in TransitionTable]_vars

(***************************************************************************)
(* C3.  The state leaves Error only for Normal, and only by the step of a  *)
(* loop cycle that read SYSTEM_ERROR and in which canRecover() returned    *)
(* true.                                                                   *)
(***************************************************************************)
C3_ErrorLeftOnlyByRecovery ==
    [][(currentState = SYSTEM_ERROR /\ currentState' # SYSTEM_ERROR)
          => /\ currentState' = SYSTEM_NORMAL
             /\ LoopCycleEnds
             /\ sw = SYSTEM_ERROR
             /\ recov']_vars

(***************************************************************************)
(* C4.  currentState has a single writer: it changes only in steps of the  *)
(* main thread (the supervisory state machine), never in a step of a task. *)
(***************************************************************************)
C4_SingleWriter ==
    [][currentState' # currentState => mainPc' # mainPc]_vars

(***************************************************************************)
(* C5.  The shutdown action: the notification is sent only while the state *)
(* is Shutdown, after tuning was disabled and at most once per boot; the   *)
(* restart follows the notification; and a state machine that entered      *)
(* Shutdown leaves it only by that restart, the notification sent.         *)
(***************************************************************************)
C5_ShutdownActionOnce ==
    /\ [](/\ shutdownSent <= 1
          /\ mainPc = "sd_send" => ~tuningActive /\ shutdownSent = 0
          /\ mainPc = "sd_restart" => shutdownSent = 1)
    /\ [][/\ shutdownSent' > shutdownSent
                => currentState = SYSTEM_SHUTDOWN
          /\ (currentState = SYSTEM_SHUTDOWN
              /\ currentState' # SYSTEM_SHUTDOWN)
                => Restarts /\ shutdownSent = 1]_vars

(***************************************************************************)
(* C6.  Shutdown is terminal: the state changes from SYSTEM_SHUTDOWN only  *)
(* by the device restart.                                                  *)
(***************************************************************************)
C6_ShutdownTerminal ==
    [][(currentState = SYSTEM_SHUTDOWN /\ currentState' # SYSTEM_SHUTDOWN)
          => Restarts]_vars

(***************************************************************************)
(* C7.  Every external shutdown request is followed by the state           *)
(* Shutdown.                                                               *)
(***************************************************************************)
C7_RequestLeadsToShutdown ==
    shutdownRequested ~> (currentState = SYSTEM_SHUTDOWN)

(***************************************************************************)
(* What the firmware does instead: as written it never is in Shutdown.     *)
(***************************************************************************)
NeverShutdown == currentState # SYSTEM_SHUTDOWN /\ sw # SYSTEM_SHUTDOWN

(***************************************************************************)
(* C8 as stated.  A loop cycle that read TuningActive and finds the tuning *)
(* flag false ends in Normal whatever the stealth flag is: the case body   *)
(* never decides for another state than Normal while the tuning flag is    *)
(* false, and the assignment stores what was decided.                      *)
(***************************************************************************)
C8_TuningOffGoesNormal ==
    [][/\ (/\ mainPc \in {"loop_case", "loop_else"}
           /\ mainPc' # mainPc
           /\ sw = SYSTEM_TUNING_ACTIVE
           /\ ~tuningEnabled)
             => \/ mainPc' = "loop_else"
                \/ mainPc' = "loop_store" /\ pending' = SYSTEM_NORMAL
       /\ (LoopStores /\ sw = SYSTEM_TUNING_ACTIVE)
             => currentState' = pending]_vars

(***************************************************************************)
(* C8, amended.  In a loop cycle that read TuningActive the stealth flag   *)
(* is consulted first: when isStealthModeEnabled() returns true the cycle  *)
(* goes on to assign StealthMode, whatever the tuning flag is; when it     *)
(* returns false the tuning flag is consulted, and when isTuningEnabled()  *)
(* then returns false the cycle goes on to assign Normal, otherwise it     *)
(* ends with the state as it is; the assignment stores what was decided.   *)
(***************************************************************************)
C8_TuningOffGoesNormalUnlessStealth ==
    [][/\ (/\ mainPc = "loop_case"
           /\ mainPc' # mainPc
           /\ sw = SYSTEM_TUNING_ACTIVE)
             => IF stealthEnabled
                THEN mainPc' = "loop_store" /\ pending' = SYSTEM_STEALTH_MODE
                ELSE mainPc' = "loop_else" /\ pending' = "none"
       /\ (mainPc = "loop_else" /\ mainPc' # mainPc)
             => IF ~tuningEnabled
                THEN mainPc' = "loop_store" /\ pending' = SYSTEM_NORMAL
                ELSE /\ mainPc' = "loop_read"
                     /\ pending' = "none"
                     /\ currentState' = currentState
       /\ (LoopStores /\ sw = SYSTEM_TUNING_ACTIVE)
             => currentState' = pending]_vars

C8_Witness ==
    /\ mainPc = "loop_read"
    /\ sw = SYSTEM_TUNING_ACTIVE
    /\ ~tuningEnabled
    /\ stealthEnabled
    /\ currentState = SYSTEM_STEALTH_MODE

(***************************************************************************)
(* What C9 says of every step: setup's assignment sets Normal, it is made  *)
(* once, and a state other than Init is never followed by Init.            *)
(***************************************************************************)
InitLeftOnceStep ==
    /\ SetupWrites => currentState' = SYSTEM_NORMAL
    /\ mainPc \notin {"setup", "set_normal"} => mainPc' # "set_normal"
    /\ currentState # SYSTEM_INIT => currentState' # SYSTEM_INIT

(***************************************************************************)
(* C9.  After startup the state has left Init, whatever the configuration  *)
(* flags are and whether or not initializeModules() succeeded; it leaves   *)
(* Init for Normal and for nothing else, once, and is never Init again.    *)
(***************************************************************************)
C9_InitLeftForNormal ==
    /\ [](mainPc \notin {"setup", "set_normal"}
             => currentState # SYSTEM_INIT)
    /\ [][/\ InitLeftOnceStep
          /\ (currentState = SYSTEM_INIT /\ currentState' # SYSTEM_INIT)
                => currentState' = SYSTEM_NORMAL]_vars

(***************************************************************************)
(* What C10 says of every step of sensorTask in both its forms:            *)
(* processSpeedSignal() follows only a first test that read TuningActive,  *)
(* stealthMode() only a second test that read StealthMode, a test that     *)
(* read any other state is followed by no call, and a call ends the cycle  *)
(* (never both calls in one cycle).                                        *)
(***************************************************************************)
StateGatesSensorStep ==
    /\ (sensorPc = "read" /\ sensorPc' # "read")
          => sensorPc' = IF currentState = SYSTEM_TUNING_ACTIVE
                         THEN "call_speed" ELSE "read_else"
    /\ (sensorPc = "read_else" /\ sensorPc' # "read_else")
          => sensorPc' = IF currentState = SYSTEM_STEALTH_MODE
                         THEN "call_stealth" ELSE "read"
    /\ sensorPc \in SensorCall => sensorPc' \in {sensorPc, "read"}

(***************************************************************************)
(* C10 as stated.  The state gates the calls of sensorTask, and once       *)
(* safetyTask has finished handling a critical error, sensorTask makes no  *)
(* call into the emulator until the state is TuningActive or StealthMode   *)
(* again.                                                                  *)
(***************************************************************************)
C10_NoCallAfterCriticalError ==
    [][StateGatesSensorStep /\ ~(quiet /\ SensorCallRuns)]_vars

(***************************************************************************)
(* C10, amended.  The state gates the calls of sensorTask, and once        *)
(* safetyTask has finished handling a critical error, no test of           *)
(* sensorTask leads to a call until the state is TuningActive or           *)
(* StealthMode again; only a call whose test had read the state before may *)
(* still run.                                                              *)
(***************************************************************************)
C10_StateGatesSensorCalls ==
    [][/\ StateGatesSensorStep
       /\ (quiet /\ sensorPc \notin SensorCall)
             => sensorPc' \notin SensorCall]_vars

C10_Witness ==
    /\ quiet
    /\ currentState = SYSTEM_ERROR
    /\ safetyPc = "check"
    /\ sensorPc = "call_speed"

(***************************************************************************)
(* C11.  Heartbeat handling runs in every cycle of the CAN task, whatever  *)
(* the system state: a cycle that started with the heartbeat due ends with *)
(* the heartbeat transmitted; and within a cycle the heartbeat is handled  *)
(* only after the messages were processed.                                 *)
(***************************************************************************)
C11_HeartbeatEveryCycle ==
    [][/\ (CanCycleEnds /\ dueAtRead) => ~heartbeatDue'
       /\ (canPc # "heartbeat" /\ canPc' = "heartbeat")
             => canPc = "process"]_vars

(***************************************************************************)
(* C12.  The connected flag follows the bus in every system state: when a  *)
(* cycle of the CAN task ends and the time since the last received frame   *)
(* exceeds the timeout, the flag is false, whatever was decoded before.    *)
(***************************************************************************)
C12_StaleMeansDisconnected ==
    [][CanCycleEnds => (rxStale' => ~isConnected')]_vars

(***************************************************************************)
(* C13.  A health check that reports a temperature warning and no critical *)
(* error: safetyTask goes on to set the performance mode, not the state,   *)
(* and the step that handles the warning leaves the performance mode       *)
(* Reduced, the system state as it was and the emulator's tuning as it     *)
(* was.                                                                    *)
(***************************************************************************)
C13_WarningOnlyReducesPerformance ==
    [][/\ (/\ safetyPc = "check"
           /\ safetyPc' # "check"
           /\ status'.temperatureWarning
           /\ ~status'.criticalError)
             => /\ safetyPc' = "set_performance"
                /\ currentState' = currentState
       /\ (/\ safetyPc = "set_performance"
           /\ safetyPc' = "check"
           /\ ~status.criticalError)
             => /\ performanceMode' = PERFORMANCE_REDUCED
                /\ currentState' = currentState
                /\ tuningActive' = tuningActive]_vars

(***************************************************************************)
(* A temperature warning without critical error has been reported while    *)
(* tuning runs at full performance.                                        *)
(***************************************************************************)
C13_Witness ==
    /\ safetyPc = "set_performance"
    /\ status.temperatureWarning
    /\ ~status.criticalError
    /\ currentState = SYSTEM_TUNING_ACTIVE
    /\ tuningActive
    /\ performanceMode = PERFORMANCE_MAXIMUM

(***************************************************************************)
(* C14.  The lower layers never transition the system state: every step   *)
(* of canBusTask, of sensorTask and of otaTask leaves currentState as it   *)
(* was.                                                                    *)
(***************************************************************************)
C14_LowerLayersKeepState ==
    [][(canPc' # canPc \/ sensorPc' # sensorPc \/ otaPc' # otaPc)
          => currentState' = currentState]_vars

(***************************************************************************)
(* The three tasks are each in the middle of a cycle, in a state that      *)
(* gates their work.                                                       *)
(***************************************************************************)
C14_Witness ==
    /\ canPc = "heartbeat"
    /\ sensorPc = "call_speed"
    /\ otaPc = "update"
    /\ currentState = SYSTEM_TUNING_ACTIVE

(***************************************************************************)
(* C15.  Recovery from Error: canRecover() is consulted by the cycles of   *)
(* the loop that read SYSTEM_ERROR and by no other, a cycle in which it    *)
(* returned true sets the state to Normal; and once the safety monitor     *)
(* reports no critical error any more and allows the recovery, a state of  *)
(* Error is followed by Normal.                                            *)
(***************************************************************************)
C15_RecoveryLive ==
    /\ [][LoopCycleEnds
             => /\ recov' => sw = SYSTEM_ERROR
                /\ recov' => currentState' = SYSTEM_NORMAL]_vars
    /\ (sustained /\ currentState = SYSTEM_ERROR)
          ~> (currentState = SYSTEM_NORMAL)

(***************************************************************************)
(* C16.  With tuning and stealth mode enabled for good and no critical     *)
(* error: the state changes only at the end of a loop cycle, once setup    *)
(* has set Normal; the cycle that reads Normal ends in TuningActive, the   *)
(* cycle that reads TuningActive ends in StealthMode and a cycle that      *)
(* reads StealthMode stays there, each cycle reading the state the one     *)
(* before left; so Normal is followed, two cycles later, by StealthMode    *)
(* for ever.                                                               *)
(***************************************************************************)
C16_NormalToStealthInTwoCycles ==
    /\ [][/\ currentState' # currentState => (SetupWrites \/ LoopCycleEnds)
          /\ LoopCycleEnds
                => /\ sw = currentState
                   /\ sw = SYSTEM_NORMAL
                         => currentState' = SYSTEM_TUNING_ACTIVE
                   /\ sw = SYSTEM_TUNING_ACTIVE
                         => currentState' = SYSTEM_STEALTH_MODE
                   /\ sw = SYSTEM_STEALTH_MODE
                         => currentState' = SYSTEM_STEALTH_MODE
          /\ currentState = SYSTEM_STEALTH_MODE
                => currentState' = SYSTEM_STEALTH_MODE]_vars
    /\ (currentState = SYSTEM_NORMAL)
          ~> [](currentState = SYSTEM_STEALTH_MODE)

(***************************************************************************)
(* The loop evaluates a cycle in StealthMode, with both subsystems of the  *)
(* lower layer having worked in the states passed through.                 *)
(***************************************************************************)
C16_Witness ==
    /\ currentState = SYSTEM_STEALTH_MODE
    /\ mainPc = "loop_case"
    /\ sw = SYSTEM_STEALTH_MODE
    /\ sensorPc = "call_stealth"
    /\ tuningEnabled /\ stealthEnabled

(***************************************************************************)
(* C17.  In StealthMode the tuning flag is not consulted: a loop cycle     *)
(* that read StealthMode and finds stealth mode enabled ends without an    *)
(* assignment, whatever the tuning flag is, and one that finds it disabled *)
(* goes on to assign TuningActive; and the state leaves StealthMode only   *)
(* for TuningActive, by the assignment of such a cycle, or for Error, by   *)
(* safetyTask on a critical error.                                         *)
(***************************************************************************)
C17_StealthIgnoresTuningFlag ==
    [][/\ (/\ mainPc = "loop_case"
           /\ mainPc' # mainPc
           /\ sw = SYSTEM_STEALTH_MODE)
             => IF stealthEnabled
                THEN /\ mainPc' = "loop_read"
                     /\ pending' = "none"
                     /\ currentState' = currentState
                ELSE /\ mainPc' = "loop_store"
                     /\ pending' = SYSTEM_TUNING_ACTIVE
       /\ (/\ currentState = SYSTEM_STEALTH_MODE
           /\ currentState' # SYSTEM_STEALTH_MODE)
             => \/ /\ currentState' = SYSTEM_TUNING_ACTIVE
                   /\ LoopStores
                   /\ sw = SYSTEM_STEALTH_MODE
                \/ /\ currentState' = SYSTEM_ERROR
                   /\ safetyPc = "set_error"
                   /\ status.criticalError]_vars

(***************************************************************************)
(* A loop cycle has read StealthMode with tuning disabled and stealth mode *)
(* enabled, and the state is still StealthMode.                            *)
(***************************************************************************)
C17_Witness ==
    /\ currentState = SYSTEM_STEALTH_MODE
    /\ sw = SYSTEM_STEALTH_MODE
    /\ mainPc = "loop_read"
    /\ ~tuningEnabled
    /\ stealthEnabled
    /\ sensorPc = "call_stealth"

(***************************************************************************)
(* C18.  Nothing enables the emulator's tuning once the tasks run: a       *)
(* tuning-active flag that is false stays false in every step of the loop  *)
(* and of the tasks, so that tuning disabled by safetyTask for a critical  *)
(* error stays disabled until the device restarts, whatever states follow. *)
(***************************************************************************)
C18_TuningStaysDisabled ==
    [][(TasksRunning /\ ~tuningActive) => ~tuningActive']_vars

(***************************************************************************)
(* safetyTask has disabled tuning for a critical error and has not yet     *)
(* finished its cycle; the state is TuningActive again and the             *)
(* emulator's tuning is still disabled.                                    *)
(***************************************************************************)
C18_Witness ==
    /\ safetyPc = "set_performance"
    /\ status.criticalError
    /\ currentState = SYSTEM_TUNING_ACTIVE
    /\ ~tuningActive
    /\ sensorPc = "call_speed"

(***************************************************************************)
(* C19.  The performance downgrade is sticky: a performance mode of        *)
(* Reduced stays Reduced in every step of the loop and of the tasks, until *)
(* the device restarts.                                                    *)
(***************************************************************************)
C19_ReducedIsSticky ==
    [][(performanceMode = PERFORMANCE_REDUCED /\ ~Restarts)
          => performanceMode' = PERFORMANCE_REDUCED]_vars

(***************************************************************************)
(* The loop has just recovered from Error, the last health check reported  *)
(* nothing, and the performance mode is still Reduced.                     *)
(***************************************************************************)
C19_Witness ==
    /\ performanceMode = PERFORMANCE_REDUCED
    /\ recov
    /\ currentState = SYSTEM_NORMAL
    /\ mainPc = "loop_read"
    /\ safetyPc = "check"
    /\ status = NoStatus

====
